---- MODULE Spec2Model ----
(***************************************************************************)
(* A model of the Lox expression pipeline of this repository:              *)
(*   scanner.rs  (Scanner)  ->  syntax.rs (Parser)  ->  interpret.rs       *)
(* driven by lib.rs (run_file / run_prompt / run).                         *)
(*                                                                         *)
(* A source text is a sequence of characters (Unicode scalar values); each *)
(* character is written as a one-character string, except U+00E9 whose     *)
(* name is spelled out.  A Rust String is the UTF-8 encoding of that       *)
(* sequence, so lengths and slices are computed on bytes.                  *)
(***************************************************************************)
EXTENDS Integers, Sequences, FiniteSets, TLC

(***************************************************************************)
(* Characters and UTF-8                                                    *)
(***************************************************************************)

\* the only non-ASCII character of the model's alphabet: LATIN SMALL LETTER E
\* WITH ACUTE, alphabetic, encoded in two bytes (C3 A9)
EAcute == "U+00E9"

\* '\0', the value peek / peek_next fall back to
NUL == "U+0000"

\* Option<char>::None
NoChar == "None"

AsciiDigits == {"0", "1", "2", "3", "4", "5", "6", "7", "8", "9"}

AsciiLetters ==
    {"a", "b", "c", "d", "e", "f", "g", "h", "i", "j", "k", "l", "m",
     "n", "o", "p", "q", "r", "s", "t", "u", "v", "w", "x", "y", "z"}

\* char::is_ascii_digit
IsAsciiDigit(c) == c \in AsciiDigits

\* char::is_alphabetic, on the characters of the model
IsAlphabetic(c) == c \in AsciiLetters \cup {EAcute}

\* char::is_alphanumeric
IsAlphanumeric(c) == IsAlphabetic(c) \/ IsAsciiDigit(c)

\* the UTF-8 bytes of one character; a byte is written as the ASCII character
\* it encodes, or as its hexadecimal name
Utf8(c) == IF c = EAcute THEN <<"C3", "A9">> ELSE <<c>>

\* a UTF-8 continuation byte (10xxxxxx)
IsContinuationByte(b) == b = "A9"

RECURSIVE SourceBytes(_)
\* String: the bytes of a source text
SourceBytes(chars) ==
    IF chars = <<>> THEN <<>>
    ELSE Utf8(Head(chars)) \o SourceBytes(Tail(chars))

\* str::is_char_boundary
IsCharBoundary(bytes, i) ==
    \/ i = 0
    \/ i = Len(bytes)
    \/ i < Len(bytes) /\ ~IsContinuationByte(bytes[i + 1])

\* &s[a..b]: a fault unless a <= b <= len and both lie on character boundaries
StrSlice(bytes, a, b) ==
    IF a <= b /\ IsCharBoundary(bytes, a) /\ IsCharBoundary(bytes, b)
    THEN [ok |-> TRUE, s |-> SubSeq(bytes, a + 1, b)]
    ELSE [ok |-> FALSE, s |-> <<>>]

\* source.chars().nth(n)
CharsNth(chars, n) == IF n < Len(chars) THEN chars[n + 1] ELSE NoChar

(***************************************************************************)
(* f64.  A number is a pair <<n, d>>: n/d in lowest terms with d > 0 for a *)
(* finite non-zero value, <<0, 1>> and <<0, -1>> for +0 and -0, <<1, 0>>   *)
(* and <<-1, 0>> for the infinities, <<0, 0>> for NaN.  Arithmetic is      *)
(* IEEE 754 arithmetic without rounding (the values of the bounded model   *)
(* are small rationals).                                                   *)
(***************************************************************************)

NaN == <<0, 0>>
PosZero == <<0, 1>>
NegZero == <<0, -1>>

Abs(i) == IF i < 0 THEN -i ELSE i

RECURSIVE Gcd(_, _)
Gcd(a, b) == IF b = 0 THEN a ELSE Gcd(b, a % b)

IsNaN(x) == x = NaN
IsInf(x) == x[2] = 0 /\ x[1] # 0
IsZero(x) == x[1] = 0 /\ x[2] # 0

\* the sign bit: 1 or -1
SignOf(x) == IF x[1] # 0 THEN (IF x[1] < 0 THEN -1 ELSE 1)
             ELSE (IF x[2] < 0 THEN -1 ELSE 1)

ZeroOfSign(s) == <<0, s>>
InfOfSign(s) == <<s, 0>>

\* n/d, d > 0, n # 0, in lowest terms
Ratio(n, d) == LET g == Gcd(Abs(n), d) IN <<n \div g, d \div g>>

\* unary minus on f64
NumNeg(x) ==
    IF IsNaN(x) THEN NaN
    ELSE IF IsZero(x) THEN <<0, -x[2]>>
    ELSE <<-x[1], x[2]>>

\* f64 + f64
NumAdd(x, y) ==
    IF IsNaN(x) \/ IsNaN(y) THEN NaN
    ELSE IF IsInf(x) /\ IsInf(y) THEN (IF x = y THEN x ELSE NaN)
    ELSE IF IsInf(x) THEN x
    ELSE IF IsInf(y) THEN y
    ELSE IF IsZero(x) /\ IsZero(y) THEN (IF x = y THEN x ELSE PosZero)
    ELSE IF IsZero(x) THEN y
    ELSE IF IsZero(y) THEN x
    ELSE LET n == x[1] * y[2] + y[1] * x[2]
             d == x[2] * y[2]
         IN IF n = 0 THEN PosZero ELSE Ratio(n, d)

\* f64 - f64
NumSub(x, y) == NumAdd(x, NumNeg(y))

\* f64 * f64
NumMul(x, y) ==
    LET s == SignOf(x) * SignOf(y)
    IN IF IsNaN(x) \/ IsNaN(y) THEN NaN
       ELSE IF (IsInf(x) /\ IsZero(y)) \/ (IsZero(x) /\ IsInf(y)) THEN NaN
       ELSE IF IsInf(x) \/ IsInf(y) THEN InfOfSign(s)
       ELSE IF IsZero(x) \/ IsZero(y) THEN ZeroOfSign(s)
       ELSE Ratio(x[1] * y[1], x[2] * y[2])

\* f64 / f64
NumDiv(x, y) ==
    LET s == SignOf(x) * SignOf(y)
    IN IF IsNaN(x) \/ IsNaN(y) THEN NaN
       ELSE IF (IsInf(x) /\ IsInf(y)) \/ (IsZero(x) /\ IsZero(y)) THEN NaN
       ELSE IF IsInf(x) \/ IsZero(y) THEN InfOfSign(s)
       ELSE IF IsZero(x) \/ IsInf(y) THEN ZeroOfSign(s)
       ELSE Ratio(s * Abs(x[1]) * y[2], x[2] * Abs(y[1]))

\* f64 == f64 (PartialEq): NaN equals nothing, +0 equals -0
NumEq(x, y) ==
    /\ ~IsNaN(x)
    /\ ~IsNaN(y)
    /\ (x = y \/ (IsZero(x) /\ IsZero(y)))

\* f64 < f64 (PartialOrd): false when either side is NaN
NumLt(x, y) ==
    IF IsNaN(x) \/ IsNaN(y) THEN FALSE
    ELSE IF IsInf(x) THEN x[1] < 0 /\ y # x
    ELSE IF IsInf(y) THEN y[1] > 0
    ELSE x[1] * Abs(y[2]) < y[1] * Abs(x[2])

NumGt(x, y) == NumLt(y, x)
NumLe(x, y) == NumLt(x, y) \/ NumEq(x, y)
NumGe(x, y) == NumLt(y, x) \/ NumEq(x, y)

DigitValue(c) ==
    CASE c = "0" -> 0 [] c = "1" -> 1 [] c = "2" -> 2 [] c = "3" -> 3
      [] c = "4" -> 4 [] c = "5" -> 5 [] c = "6" -> 6 [] c = "7" -> 7
      [] c = "8" -> 8 [] c = "9" -> 9

RECURSIVE DigitsValue(_, _)
\* the value of a run of decimal digits, most significant first
DigitsValue(ds, acc) ==
    IF ds = <<>> THEN acc
    ELSE DigitsValue(Tail(ds), 10 * acc + DigitValue(Head(ds)))

RECURSIVE Pow10(_)
Pow10(k) == IF k = 0 THEN 1 ELSE 10 * Pow10(k - 1)

RECURSIVE DigitPrefixLen(_)
\* the length of the longest prefix of ASCII digits
DigitPrefixLen(bs) ==
    IF bs # <<>> /\ IsAsciiDigit(Head(bs)) THEN 1 + DigitPrefixLen(Tail(bs))
    ELSE 0

\* <f64 as FromStr>::from_str on a byte string: an optional sign, then "inf",
\* "infinity" or "nan", or decimal digits with an optional point and at least
\* one digit.  (The exponent forms need the letter e next to a digit, and the
\* upper-case spellings need capitals; no lexeme of the model contains them.)
ParseF64(lexeme) ==
    LET signed == lexeme # <<>> /\ Head(lexeme) \in {"+", "-"}
        sgn == IF signed /\ Head(lexeme) = "-" THEN -1 ELSE 1
        body == IF signed THEN Tail(lexeme) ELSE lexeme
        ni == DigitPrefixLen(body)
        ipart == SubSeq(body, 1, ni)
        rest == SubSeq(body, ni + 1, Len(body))
        pointed == rest # <<>> /\ Head(rest) = "."
        frac == IF pointed THEN Tail(rest) ELSE <<>>
        nf == DigitPrefixLen(frac)
        n == DigitsValue(ipart \o frac, 0)
    IN IF body \in {<<"i", "n", "f">>, <<"i", "n", "f", "i", "n", "i", "t", "y">>}
       THEN [ok |-> TRUE, num |-> InfOfSign(sgn)]
       ELSE IF body = <<"n", "a", "n">>
       THEN [ok |-> TRUE, num |-> NaN]
       ELSE IF /\ ni + nf > 0
               /\ (pointed \/ rest = <<>>)
               /\ nf = Len(frac)
       THEN [ok |-> TRUE,
             num |-> IF n = 0 THEN ZeroOfSign(sgn) ELSE Ratio(sgn * n, Pow10(nf))]
       ELSE [ok |-> FALSE, num |-> NaN]

(***************************************************************************)
(* scanner.rs: tokens                                                      *)
(***************************************************************************)

\* struct Token { ty, lexeme, line }.  The payload of TokenType::Number is
\* num, the payload of TokenType::String and TokenType::Identifier is text;
\* the other token types carry neither.
MkToken(ty, num, text, lexeme, line) ==
    [ty |-> ty, num |-> num, text |-> text, lexeme |-> lexeme, line |-> line]

\* static KEYWORDS
KEYWORDS ==
    (<<"a", "n", "d">> :> "And")
    @@ (<<"c", "l", "a", "s", "s">> :> "Class")
    @@ (<<"e", "l", "s", "e">> :> "Else")
    @@ (<<"f", "a", "l", "s", "e">> :> "False")
    @@ (<<"f", "o", "r">> :> "For")
    @@ (<<"f", "u", "n">> :> "Fun")
    @@ (<<"i", "f">> :> "If")
    @@ (<<"n", "i", "l">> :> "Nil")
    @@ (<<"o", "r">> :> "Or")
    @@ (<<"p", "r", "i", "n", "t">> :> "Print")
    @@ (<<"r", "e", "t", "u", "r", "n">> :> "Return")
    @@ (<<"s", "u", "p", "e", "r">> :> "Super")
    @@ (<<"t", "h", "i", "s">> :> "This")
    @@ (<<"t", "r", "u", "e">> :> "True")
    @@ (<<"v", "a", "r">> :> "Var")
    @@ (<<"w", "h", "i", "l", "e">> :> "While")

\* the single-character arms of scan_token's match
SingleCharTokens ==
    ("(" :> "LeftParen") @@ (")" :> "RightParen") @@ ("{" :> "LeftBrace")
    @@ ("}" :> "RightBrace") @@ ("," :> "Comma") @@ ("." :> "Dot")
    @@ ("-" :> "Minus") @@ ("+" :> "Plus") @@ (";" :> "Semicolon")
    @@ ("*" :> "Star")

\* the arms that look ahead for '=': <<one-character type, two-character type>>
OneOrTwoCharTokens ==
    ("!" :> <<"Bang", "BangEqual">>) @@ ("=" :> <<"Equal", "EqualEqual">>)
    @@ ("<" :> <<"Less", "LessEqual">>) @@ (">" :> <<"Greater", "GreaterEqual">>)

(***************************************************************************)
(* scanner.rs: Scanner.  A scanner state is a record                       *)
(* [source, start, current, line]; start and current are the usize fields  *)
(* the code both counts characters with and slices bytes with.             *)
(***************************************************************************)

\* Scanner::new
ScannerNew(src) == [source |-> src, start |-> 0, current |-> 0, line |-> 1]

\* Scanner::is_at_end: current against the length in BYTES
Scanner_is_at_end(s) == s.current >= Len(SourceBytes(s.source))

\* Scanner::peek
Scanner_peek(s) ==
    LET c == CharsNth(s.source, s.current) IN IF c = NoChar THEN NUL ELSE c

\* Scanner::peek_next
peek_next(s) ==
    LET c == CharsNth(s.source, s.current + 1) IN IF c = NoChar THEN NUL ELSE c

\* Scanner::advance: the state after the call (the character returned is
\* CharsNth(s.source, s.current) of the state before)
Scanner_advance(s) == [s EXCEPT !.current = @ + 1]

\* Scanner::matches: <<matched, state after>>
Scanner_matches(s, expected) ==
    IF Scanner_is_at_end(s) THEN <<FALSE, s>>
    ELSE IF CharsNth(s.source, s.current) = expected
         THEN <<TRUE, [s EXCEPT !.current = @ + 1]>>
         ELSE <<FALSE, s>>

\* Scanner::current_lexeme: the byte slice source[start..current]
current_lexeme(s) == StrSlice(SourceBytes(s.source), s.start, s.current)

\* results of scan_token: Ok(Some(token)), Ok(None), Err(Error::new(line,
\* message)), or a panic
NoToken == MkToken("None", PosZero, <<>>, <<>>, 0)
ScanOk(s, tok) ==
    [res |-> "token", s |-> s, token |-> tok, line |-> 0, message |-> ""]
ScanSkip(s) ==
    [res |-> "skip", s |-> s, token |-> NoToken, line |-> 0, message |-> ""]
ScanErr(s, line, msg) ==
    [res |-> "error", s |-> s, token |-> NoToken, line |-> line, message |-> msg]
ScanPanic(s) ==
    [res |-> "panic", s |-> s, token |-> NoToken, line |-> 0,
     message |-> "byte index is not a char boundary"]

\* the token's line: self.line at the time the token is finalized
TokenLine(s) == s.line

\* Scanner::token
token(s, ty, num, text) ==
    LET lx == current_lexeme(s)
    IN IF lx.ok THEN ScanOk(s, MkToken(ty, num, text, lx.s, TokenLine(s)))
       ELSE ScanPanic(s)

RECURSIVE StringLoopNoCount(_)
\* the loop without its line += 1
StringLoopNoCount(s) ==
    IF Scanner_peek(s) # "\"" /\ ~Scanner_is_at_end(s)
    THEN StringLoopNoCount(Scanner_advance(s))
    ELSE s

RECURSIVE StringLoop(_)
\* the while loop of Scanner::string
StringLoop(s) ==
    IF Scanner_peek(s) # "\"" /\ ~Scanner_is_at_end(s)
    THEN StringLoop(Scanner_advance(
             IF Scanner_peek(s) = "\n" THEN [s EXCEPT !.line = @ + 1] ELSE s))
    ELSE s

\* the line of the "Unterminated string." error: self.line after the loop
UnterminatedLine(s) == s.line

\* Scanner::string, entered after the opening quote was consumed
string(s0) ==
    LET s1 == StringLoop(s0)
    IN IF Scanner_is_at_end(s1)
       THEN ScanErr(s1, UnterminatedLine(s1), "Unterminated string.")
       ELSE LET s2 == Scanner_advance(s1)
                lx == current_lexeme(s2)
                lit == IF lx.ok THEN StrSlice(lx.s, 1, Len(lx.s) - 1)
                       ELSE [ok |-> FALSE, s |-> <<>>]
            IN IF lx.ok /\ lit.ok THEN token(s2, "String", PosZero, lit.s)
               ELSE ScanPanic(s2)

RECURSIVE DigitLoop(_)
\* while self.peek().is_ascii_digit() { advance }
DigitLoop(s) ==
    IF IsAsciiDigit(Scanner_peek(s)) THEN DigitLoop(Scanner_advance(s)) ELSE s

\* Scanner::number, entered after the first digit was consumed
number(s0) ==
    LET s1 == DigitLoop(s0)
        s2 == IF Scanner_peek(s1) = "." /\ IsAsciiDigit(peek_next(s1))
              THEN DigitLoop(Scanner_advance(s1))
              ELSE s1
        lx == current_lexeme(s2)
        parsed == ParseF64(lx.s)
    IN IF ~lx.ok THEN ScanPanic(s2)
       ELSE IF ~parsed.ok THEN ScanErr(s2, s2.line, "Invalid number literal.")
       ELSE token(s2, "Number", parsed.num, <<>>)

RECURSIVE IdentifierLoop(_)
\* the while loop of Scanner::identifier
IdentifierLoop(s) ==
    IF IsAlphanumeric(Scanner_peek(s)) \/ Scanner_peek(s) = "_"
    THEN IdentifierLoop(Scanner_advance(s))
    ELSE s

\* Scanner::identifier, entered after the first character was consumed
identifier(s0) ==
    LET s1 == IdentifierLoop(s0)
        lx == current_lexeme(s1)
    IN IF ~lx.ok THEN ScanPanic(s1)
       ELSE IF lx.s \in DOMAIN KEYWORDS THEN token(s1, KEYWORDS[lx.s], PosZero, <<>>)
       ELSE token(s1, "Identifier", PosZero, lx.s)

RECURSIVE CommentLoop(_)
\* while self.peek() != '\n' && !self.is_at_end() { advance }
CommentLoop(s) ==
    IF Scanner_peek(s) # "\n" /\ ~Scanner_is_at_end(s)
    THEN CommentLoop(Scanner_advance(s))
    ELSE s

\* Scanner::scan_token
scan_token(s0) ==
    LET c == CharsNth(s0.source, s0.current)
        s == Scanner_advance(s0)
    IN IF c = NoChar THEN ScanSkip(s)
       ELSE IF c \in DOMAIN SingleCharTokens
       THEN token(s, SingleCharTokens[c], PosZero, <<>>)
       ELSE IF c \in DOMAIN OneOrTwoCharTokens
       THEN LET m == Scanner_matches(s, "=")
            IN token(m[2], OneOrTwoCharTokens[c][IF m[1] THEN 2 ELSE 1], PosZero, <<>>)
       ELSE IF c = "/"
       THEN LET m == Scanner_matches(s, "/")
            IN IF m[1] THEN ScanSkip(CommentLoop(m[2]))
               ELSE token(s, "Slash", PosZero, <<>>)
       ELSE IF c \in {" ", "\r", "\t"} THEN ScanSkip(s)
       ELSE IF c = "\n" THEN ScanSkip([s EXCEPT !.line = @ + 1])
       ELSE IF c = "\"" THEN string(s)
       ELSE IF IsAsciiDigit(c) THEN number(s)
       ELSE IF IsAlphabetic(c) \/ c = "_" THEN identifier(s)
       ELSE ScanErr(s, s.line, "Unexpected character.")

\* an Eof token that carries the first line whatever the line counter holds
EofTokenAtLineOne(s) == MkToken("Eof", PosZero, <<>>, <<>>, 1)

\* the Eof token scan_tokens pushes on completion
EofToken(s) == MkToken("Eof", PosZero, <<>>, <<>>, s.line)

RECURSIVE ScanLoop(_, _)
\* the while loop of Scanner::scan_tokens, run to completion:
\* [res |-> "ok" | "error" | "panic", s, tokens, line, message], s being
\* the scanner when the loop ended
ScanLoop(s, toks) ==
    IF Scanner_is_at_end(s)
    THEN [res |-> "ok", s |-> s, tokens |-> Append(toks, EofToken(s)), line |-> 0,
          message |-> ""]
    ELSE LET r == scan_token([s EXCEPT !.start = s.current])
         IN CASE r.res = "token" -> ScanLoop(r.s, Append(toks, r.token))
              [] r.res = "skip" -> ScanLoop(r.s, toks)
              [] r.res = "error" ->
                    [res |-> "error", s |-> r.s, tokens |-> <<>>, line |-> r.line,
                     message |-> r.message]
              [] r.res = "panic" ->
                    [res |-> "panic", s |-> r.s, tokens |-> <<>>, line |-> 0,
                     message |-> r.message]

\* Scanner::scan_tokens
scan_tokens(src) == ScanLoop(ScannerNew(src), <<>>)

(***************************************************************************)
(* syntax.rs: Expr and Parser.  A parser state is [tokens, current].  Each *)
(* grammar function yields [ok, expr, p, line, message]: Ok(expr) with the *)
(* parser state after it, or Err(Error::Syntax { line, message }).         *)
(***************************************************************************)

Binary(left, operator, right) ==
    [node |-> "Binary", left |-> left, operator |-> operator, right |-> right]
Grouping(e) == [node |-> "Grouping", e |-> e]
Literal(tok) == [node |-> "Literal", token |-> tok]
Unary(operator, right) == [node |-> "Unary", operator |-> operator, right |-> right]

NoExpr == [node |-> "None"]

ParseOk(e, p) == [ok |-> TRUE, expr |-> e, p |-> p, line |-> 0, message |-> ""]
ParseErr(p, line, msg) ==
    [ok |-> FALSE, expr |-> NoExpr, p |-> p, line |-> line, message |-> msg]

\* Parser::new
ParserNew(toks) == [tokens |-> toks, current |-> 0]

\* Parser::peek is Some
HasPeek(p) == p.current < Len(p.tokens)

\* Parser::peek, where it is Some
Parser_peek(p) == p.tokens[p.current + 1]

\* Parser::previous (tokens.get(current - 1)), where current >= 1
previous(p) == p.tokens[p.current]

\* Parser::is_at_end
Parser_is_at_end(p) == IF HasPeek(p) THEN Parser_peek(p).ty = "Eof" ELSE TRUE

\* Parser::check; TokenType::matches compares discriminants only
check(p, ty) ==
    IF Parser_is_at_end(p) THEN FALSE
    ELSE IF HasPeek(p) THEN Parser_peek(p).ty = ty ELSE FALSE

\* Parser::advance: the state after the call
Parser_advance(p) ==
    IF ~Parser_is_at_end(p) THEN [p EXCEPT !.current = @ + 1] ELSE p

\* Parser::matches: <<matched, state after>>
Parser_matches(p, types) ==
    IF \E ty \in types : check(p, ty) THEN <<TRUE, Parser_advance(p)>>
    ELSE <<FALSE, p>>

\* self.peek().map(|t| t.line).unwrap_or_default()
PeekLine(p) == IF HasPeek(p) THEN Parser_peek(p).line ELSE 0

\* Parser::consume
consume(p, ty, message) ==
    IF check(p, ty) THEN ParseOk(NoExpr, Parser_advance(p))
    ELSE ParseErr(p, PeekLine(p), message)

\* the operator sets of the four binary levels and of unary
EqualityOps == {"BangEqual", "EqualEqual"}
ComparisonOps == {"Greater", "GreaterEqual", "Less", "LessEqual"}
TermOps == {"Minus", "Plus"}
FactorOps == {"Slash", "Star"}
UnaryOps == {"Bang", "Minus"}

\* primary taking an identifier for a literal too
PrimaryLiteralsAndIdentifier ==
    {"False", "True", "Nil", "Number", "String", "Identifier"}

\* the token types primary accepts as a literal
PrimaryLiterals == {"False", "True", "Nil", "Number", "String"}

\* the grammar function each binary level parses its operands with
OperandRule ==
    [equality |-> "comparison", comparison |-> "term", term |-> "factor",
     factor |-> "unary"]

\* term and factor with each other's operators
LevelOpsSwapped ==
    [equality |-> EqualityOps, comparison |-> ComparisonOps, term |-> FactorOps,
     factor |-> TermOps]

\* the operators each binary level matches in its while condition
LevelOps ==
    [equality |-> EqualityOps, comparison |-> ComparisonOps, term |-> TermOps,
     factor |-> FactorOps]

\* the fold with left and right exchanged
FoldBinarySwapped(expr, operator, right) == Binary(right, operator, expr)

\* one iteration's fold: Expr::Binary { left: expr, operator, right }
FoldBinary(expr, operator, right) == Binary(expr, operator, right)

\* The grammar functions call each other in a cycle; they are written as one
\* recursive operator, Rule(name, p) being the function called name.
RECURSIVE Rule(_, _), WhileMatches(_, _, _)

\* the while loop of equality, comparison, term and factor (the four are the
\* same code but for the operators matched and the operand function), with
\* expr the running expression
WhileMatches(name, p, expr) ==
    LET m == Parser_matches(p, LevelOps[name])
    IN IF m[1]
       THEN LET r == Rule(OperandRule[name], m[2])
            IN IF r.ok
               THEN WhileMatches(name, r.p, FoldBinary(expr, previous(m[2]), r.expr))
               ELSE r
       ELSE ParseOk(expr, p)

Rule(name, p) ==
    CASE name = "expression" -> Rule("equality", p)
      [] name \in DOMAIN OperandRule ->
           LET r == Rule(OperandRule[name], p)
           IN IF r.ok THEN WhileMatches(name, r.p, r.expr) ELSE r
      [] name = "unary" ->
           LET m == Parser_matches(p, UnaryOps)
           IN IF m[1]
              THEN LET r == Rule("unary", m[2])
                   IN IF r.ok THEN ParseOk(Unary(previous(m[2]), r.expr), r.p) ELSE r
              ELSE Rule("primary", p)
      [] name = "primary" ->
           LET m == Parser_matches(p, PrimaryLiterals)
           IN IF m[1] THEN ParseOk(Literal(previous(m[2])), m[2])
              ELSE LET g == Parser_matches(p, {"LeftParen"})
                   IN IF g[1]
                      THEN LET r == Rule("expression", g[2])
                           IN IF r.ok
                              THEN LET c == consume(r.p, "RightParen",
                                                    "Expected ')' after expression.")
                                   IN IF c.ok THEN ParseOk(Grouping(r.expr), c.p)
                                      ELSE c
                              ELSE r
                      ELSE ParseErr(p, PeekLine(p), "Expected expression.")

\* Parser::expression
expression(p) == Rule("expression", p)
\* Parser::equality
equality(p) == Rule("equality", p)
\* Parser::comparison
comparison(p) == Rule("comparison", p)
\* Parser::term
term(p) == Rule("term", p)
\* Parser::factor
factor(p) == Rule("factor", p)
\* Parser::unary
unary(p) == Rule("unary", p)
\* Parser::primary
primary(p) == Rule("primary", p)

\* Parser::parse
parse(p) == expression(p)

(***************************************************************************)
(* interpret.rs: Value and evaluate.  A value is [kind, num, text, bool];  *)
(* the fields its kind does not use hold a fixed filler.                   *)
(***************************************************************************)

\* Value::String
StringValue(s) == [kind |-> "String", num |-> PosZero, text |-> s, bool |-> FALSE]
\* Value::Number
NumberValue(x) == [kind |-> "Number", num |-> x, text |-> <<>>, bool |-> FALSE]
\* Value::Boolean
BooleanValue(b) == [kind |-> "Boolean", num |-> PosZero, text |-> <<>>, bool |-> b]
\* Value::Nil
NilValue == [kind |-> "Nil", num |-> PosZero, text |-> <<>>, bool |-> FALSE]

\* an equality that takes nil and false for equal
ValueEqTruthy(l, r) ==
    IF l.kind = r.kind
    THEN CASE l.kind = "String" -> l.text = r.text
           [] l.kind = "Number" -> NumEq(l.num, r.num)
           [] l.kind = "Boolean" -> l.bool = r.bool
           [] l.kind = "Nil" -> TRUE
    ELSE /\ {l.kind, r.kind} = {"Nil", "Boolean"}
         /\ ~l.bool
         /\ ~r.bool

\* #[derive(PartialEq)] on Value: the same variant and equal payloads
ValueEq(l, r) ==
    /\ l.kind = r.kind
    /\ CASE l.kind = "String" -> l.text = r.text
         [] l.kind = "Number" -> NumEq(l.num, r.num)
         [] l.kind = "Boolean" -> l.bool = r.bool
         [] l.kind = "Nil" -> TRUE

\* PartialEq::ne, as derived: the negation of eq
ValueNe(l, r) == ~ValueEq(l, r)

\* Value::is_truthy
is_truthy(v) ==
    CASE v.kind \in {"String", "Number"} -> TRUE
      [] v.kind = "Boolean" -> v.bool
      [] v.kind = "Nil" -> FALSE

\* impl Not for Value
ValueNot(v) == BooleanValue(~is_truthy(v))

\* results of evaluate: Ok(value), Err(Error::TypeError { line, message }),
\* or a panic!
EvalOk(v) == [res |-> "ok", value |-> v, line |-> 0, message |-> ""]
EvalErr(line, msg) == [res |-> "error", value |-> NilValue, line |-> line, message |-> msg]
EvalPanic(msg) == [res |-> "panic", value |-> NilValue, line |-> 0, message |-> msg]

\* Value::into_double
into_double(v, line) ==
    IF v.kind = "Number" THEN EvalOk(v) ELSE EvalErr(line, "Expected number")

\* the arms that take two doubles: into_double on the left, then on the
\* right, then the operation f
NumericBinary(left, right, line, result) ==
    LET l == into_double(left, line)
        r == into_double(right, line)
    IN IF l.res # "ok" THEN l
       ELSE IF r.res # "ok" THEN r
       ELSE EvalOk(result)

\* a '+' that takes nil for the number 0
PlusArmNilAsZero(left, right, line) ==
    LET l == IF left.kind = "Nil" THEN NumberValue(PosZero) ELSE left
        r == IF right.kind = "Nil" THEN NumberValue(PosZero) ELSE right
    IN IF l.kind = "Number" /\ r.kind = "Number"
       THEN EvalOk(NumberValue(NumAdd(l.num, r.num)))
       ELSE IF l.kind = "String" /\ r.kind = "String"
       THEN EvalOk(StringValue(l.text \o r.text))
       ELSE EvalErr(line, "Invalid operand types for '+'")

\* the TokenType::Plus arm
PlusArm(left, right, line) ==
    IF left.kind = "Number" /\ right.kind = "Number"
    THEN EvalOk(NumberValue(NumAdd(left.num, right.num)))
    ELSE IF left.kind = "String" /\ right.kind = "String"
    THEN EvalOk(StringValue(left.text \o right.text))
    ELSE EvalErr(line, "Invalid operand types for '+'")

\* the TokenType::EqualEqual arm
EqualEqualArm(left, right) == EvalOk(BooleanValue(ValueEq(left, right)))

\* the TokenType::BangEqual arm
BangEqualArm(left, right) == EvalOk(BooleanValue(ValueNe(left, right)))

\* match operator.ty of Expr::Binary, on the two evaluated operands
BinaryArm(operator, left, right) ==
    LET ty == operator.ty
        line == operator.line
    IN CASE ty = "Minus" ->
              NumericBinary(left, right, line, NumberValue(NumSub(left.num, right.num)))
         [] ty = "Slash" ->
              NumericBinary(left, right, line, NumberValue(NumDiv(left.num, right.num)))
         [] ty = "Star" ->
              NumericBinary(left, right, line, NumberValue(NumMul(left.num, right.num)))
         [] ty = "Plus" -> PlusArm(left, right, line)
         [] ty = "Greater" ->
              NumericBinary(left, right, line, BooleanValue(NumGt(left.num, right.num)))
         [] ty = "GreaterEqual" ->
              NumericBinary(left, right, line, BooleanValue(NumGe(left.num, right.num)))
         [] ty = "Less" ->
              NumericBinary(left, right, line, BooleanValue(NumLt(left.num, right.num)))
         [] ty = "LessEqual" ->
              NumericBinary(left, right, line, BooleanValue(NumLe(left.num, right.num)))
         [] ty = "BangEqual" -> BangEqualArm(left, right)
         [] ty = "EqualEqual" -> EqualEqualArm(left, right)
         [] OTHER -> EvalPanic("Invalid binary operator")

\* match token.ty of Expr::Literal
LiteralArm(tok) ==
    CASE tok.ty = "Number" -> EvalOk(NumberValue(tok.num))
      [] tok.ty = "String" -> EvalOk(StringValue(tok.text))
      [] tok.ty = "False" -> EvalOk(BooleanValue(FALSE))
      [] tok.ty = "True" -> EvalOk(BooleanValue(TRUE))
      [] tok.ty = "Nil" -> EvalOk(NilValue)
      [] OTHER -> EvalPanic("Invalid literal value")

\* match operator.ty of Expr::Unary, on the evaluated operand
UnaryArm(operator, right) ==
    CASE operator.ty = "Minus" ->
           LET r == into_double(right, operator.line)
           IN IF r.res = "ok" THEN EvalOk(NumberValue(NumNeg(right.num))) ELSE r
      [] operator.ty = "Bang" -> EvalOk(ValueNot(right))
      [] OTHER -> EvalPanic("Invalid unary operator")

RECURSIVE evaluate(_)
\* evaluate
evaluate(expr) ==
    CASE expr.node = "Binary" ->
           LET left == evaluate(expr.left)
           IN IF left.res # "ok" THEN left
              ELSE LET right == evaluate(expr.right)
                   IN IF right.res # "ok" THEN right
                      ELSE BinaryArm(expr.operator, left.value, right.value)
      [] expr.node = "Grouping" -> evaluate(expr.e)
      [] expr.node = "Literal" -> LiteralArm(expr.token)
      [] expr.node = "Unary" ->
           LET right == evaluate(expr.right)
           IN IF right.res # "ok" THEN right
              ELSE UnaryArm(expr.operator, right.value)

(***************************************************************************)
(* Bounds of the model, and the source texts it reads                      *)
(***************************************************************************)

\* the longest source text enumerated character by character
MaxSrcLen == 3

\* the most words of a source text enumerated word by word
MaxWords == 2

\* the most words of a source text over the operator-chain words
MaxChain == 5

\* the characters of the enumerated source texts: a quote, a newline, a
\* blank, a digit, a point, a letter, the two-byte letter, operators, a
\* parenthesis and a character no token starts with
SrcAlphabet == {"\"", "\n", " ", "1", ".", "a", EAcute, "/", "=", "!", "(", "-", "@"}

RECURSIVE SeqsUpTo(_, _)
\* all sequences over S of length at most n
SeqsUpTo(S, n) ==
    IF n = 0 THEN {<<>>}
    ELSE LET shorter == SeqsUpTo(S, n - 1)
         IN shorter \cup {Append(w, c) : w \in shorter, c \in S}

\* source texts beyond the enumerated lengths (the cases the specification's
\* own examples name, and multi-byte text inside comments and strings)
ExampleSources ==
    { <<"1", " ", "-", " ", "2", " ", "-", " ", "3">>,
      <<"1", " ", "+", " ", "2", " ", "*", " ", "3">>,
      <<"(", "1", " ", "+", " ", "2", ")", " ", "*", " ", "3">>,
      <<"/", "/", " ", "c", "\n", "1", "2", "3">>,
      <<"\"", "a", "\n", "b", "\"", "\n", "+", " ", "1", "2">>,
      <<"1", "\n", "\"", "a", "\n", "b">>,
      <<"\"", "a", "\n", "\n", "b", "\"", "=", "=", "n", "i", "l">>,
      <<"/", "/", EAcute, "\n", "-", "1", "5">>,
      <<"/", "/", EAcute, "\n", "\"", "a", "\"">>,
      <<"\"", EAcute, "\"">>,
      <<"1", "\n", "+", "\n", "t", "r", "u", "e">> }

\* what run_file can read: any text
FileSources == SeqsUpTo(SrcAlphabet, MaxSrcLen) \cup ExampleSources

\* what read_line can yield: text up to and including the first newline
LineSources ==
    {src \in FileSources : \A i \in 1..Len(src) : src[i] = "\n" => i = Len(src)}

\* the words (lexemes) of the word-by-word source texts: every literal kind,
\* every operator of the expression grammar, the parentheses, and two tokens
\* the grammar has no place for
Words ==
    { <<"0">>, <<"1">>, <<"2">>, <<"\"", "a", "\"">>, <<"t", "r", "u", "e">>,
      <<"f", "a", "l", "s", "e">>, <<"n", "i", "l">>,
      <<"(">>, <<")">>, <<"-">>, <<"+">>, <<"*">>, <<"/">>, <<"!">>,
      <<"!", "=">>, <<"=", "=">>, <<">">>, <<">", "=">>, <<"<">>, <<"<", "=">>,
      <<"x">>, <<";">> }

\* the words of the operator chains: an operand and one operator of each
\* binary level (the '-' is the unary operator too)
ChainWords ==
    { <<"1">>, <<"-">>, <<"*">>, <<"<">>, <<"=", "=">> }

\* the words of the parenthesised chains: an operand, the parentheses and one
\* operator of the term and of the factor level
GroupWords ==
    { <<"1">>, <<"-">>, <<"*">>, <<"(">>, <<")">> }

\* operands of every value kind, and every binary operator of the grammar
OperandWords ==
    { <<"0">>, <<"1">>, <<"2">>, <<"\"", "a", "\"">>, <<"\"", "b", "\"">>,
      <<"t", "r", "u", "e">>, <<"f", "a", "l", "s", "e">>, <<"n", "i", "l">> }
BinaryOperatorWords ==
    { <<"-">>, <<"+">>, <<"*">>, <<"/">>, <<"!", "=">>, <<"=", "=">>, <<">">>,
      <<">", "=">>, <<"<">>, <<"<", "=">> }

\* every binary operator on every pair of operand kinds
BinaryWordSeqs ==
    {<<l, op, r>> : l \in OperandWords, op \in BinaryOperatorWords, r \in OperandWords}

RECURSIVE JoinWords(_)
\* the words, each followed by a blank
JoinWords(ws) ==
    IF ws = <<>> THEN <<>> ELSE Head(ws) \o <<" ">> \o JoinWords(Tail(ws))

\* longer expressions the claims name
ExampleWordSeqs ==
    { <<<<"1">>, <<"-">>, <<"2">>, <<"-">>, <<"3">>>>,
      <<<<"1">>, <<"+">>, <<"2">>, <<"*">>, <<"3">>>>,
      <<<<"(">>, <<"1">>, <<"+">>, <<"2">>, <<")">>, <<"*">>, <<"3">>>>,
      <<<<"0">>, <<"/">>, <<"0">>, <<"=", "=">>, <<"0">>, <<"/">>, <<"0">>>>,
      <<<<"0">>, <<"/">>, <<"0">>, <<"!", "=">>, <<"0">>, <<"/">>, <<"0">>>>,
      <<<<"0">>, <<"=", "=">>, <<"-">>, <<"0">>>>,
      <<<<"1">>, <<"/">>, <<"0">>, <<"+">>, <<"1">>>>,
      <<<<"1">>, <<"<">>, <<"2">>, <<"=", "=">>, <<"t", "r", "u", "e">>>>,
      <<<<"8">>, <<"/">>, <<"4">>, <<"/">>, <<"2">>>>,
      <<<<"1">>, <<"<">>, <<"2">>, <<"<">>, <<"3">>>>,
      <<<<"1">>, <<"=", "=">>, <<"1">>, <<"=", "=">>, <<"t", "r", "u", "e">>>>,
      <<<<"1">>, <<"-">>, <<"2">>, <<"+">>, <<"3">>>>,
      <<<<"3">>, <<">">>, <<"2">>, <<"<", "=">>, <<"1">>>>,
      <<<<"1">>, <<"\n">>, <<"+">>, <<"\n">>, <<"n", "i", "l">>>>,
      <<<<"1">>, <<"\n">>, <<"+">>, <<"\n">>, <<"2">>>>,
      <<<<"!">>, <<"(">>, <<"1">>, <<"<">>, <<"2">>, <<")">>, <<"=", "=">>, <<"f", "a", "l", "s", "e">>>> }

WordSources ==
    {JoinWords(ws) : ws \in SeqsUpTo(Words, MaxWords) \cup SeqsUpTo(ChainWords, MaxChain)
                             \cup SeqsUpTo(GroupWords, MaxChain)
                             \cup BinaryWordSeqs \cup ExampleWordSeqs}

(***************************************************************************)
(* lib.rs and main.rs: the driver, as a state machine                      *)
(***************************************************************************)

VARIABLES
    mode,       \* main's choice: "file" (run_file) or "prompt" (run_prompt)
    stage,      \* where control is: "read", "scan", "parse", "eval", "done",
                \* "exit" (main returned) or "panic" (the process aborted)
    scanner,    \* the Scanner of the current run
    tokens,     \* scan_tokens' local vector, then run's tokens
    spans,      \* for each token ScanStep or ScanEof pushed, <<start, current>>
                \* at that moment
    parser,     \* the Parser of the current run
    expr,       \* the expression parse returned
    outcome,    \* what the current run reported
    prev        \* run_prompt: how the previous line ended ("none" at first)

vars == <<mode, stage, scanner, tokens, spans, parser, expr, outcome, prev>>

NoOutcome == [kind |-> "none", line |-> 0, message |-> "", value |-> NilValue]
\* println!("{v}") in interpret
PrintedValue(v) == [kind |-> "value", line |-> 0, message |-> "", value |-> v]
\* an Err of run, or the TypeError interpret prints
Failure(kind, line, msg) ==
    [kind |-> kind, line |-> line, message |-> msg, value |-> NilValue]

\* the state of one run before its source text is read
Fresh ==
    /\ scanner = ScannerNew(<<>>)
    /\ tokens = <<>>
    /\ spans = <<>>
    /\ parser = ParserNew(<<>>)
    /\ expr = NoExpr
    /\ outcome = NoOutcome

Init ==
    /\ mode \in {"file", "prompt"}
    /\ stage = "read"
    /\ prev = "none"
    /\ Fresh

\* run: let scanner = Scanner::new(source)
StartRun(src) ==
    /\ scanner' = ScannerNew(src)
    /\ stage' = "scan"
    /\ UNCHANGED <<mode, tokens, spans, parser, expr, outcome, prev>>

\* run_file: read_to_string succeeded, run(source)
ReadFile ==
    /\ mode = "file"
    /\ stage = "read"
    /\ \E src \in FileSources : StartRun(src)

\* run_file: read_to_string failed; the io::Error is returned to main
ReadFileFail ==
    /\ mode = "file"
    /\ stage = "read"
    /\ outcome' = Failure("IO", 0, "")
    /\ stage' = "exit"
    /\ UNCHANGED <<mode, scanner, tokens, spans, parser, expr, prev>>

\* run_prompt: read_line is Ok, run(line)
ReadLine ==
    /\ mode = "prompt"
    /\ stage = "read"
    /\ \E src \in LineSources : StartRun(src)

\* run_prompt: read_line is Err, break
ReadLineFail ==
    /\ mode = "prompt"
    /\ stage = "read"
    /\ stage' = "exit"
    /\ UNCHANGED <<mode, scanner, tokens, spans, parser, expr, outcome, prev>>

\* a run that goes on to the parser whatever scan_tokens returned
AfterScanAlways(ok) == "parse"

\* where run goes after scan_tokens()?: on to the parser, or back to its
\* caller with the error
AfterScan(ok) == IF ok THEN "parse" ELSE "done"

\* where run goes after parse()?
AfterParse(ok) == IF ok THEN "eval" ELSE "done"

\* one iteration of the while loop of scan_tokens
ScanStep ==
    /\ stage = "scan"
    /\ ~Scanner_is_at_end(scanner)
    /\ LET r == scan_token([scanner EXCEPT !.start = scanner.current])
       IN /\ scanner' = r.s
          /\ tokens' = IF r.res = "token" THEN Append(tokens, r.token) ELSE tokens
          /\ spans' = IF r.res = "token"
                      THEN Append(spans, <<r.s.start, r.s.current>>)
                      ELSE spans
          /\ outcome' = CASE r.res = "error" ->
                                 Failure("SyntaxError", r.line, r.message)
                          [] r.res = "panic" -> Failure("panic", 0, r.message)
                          [] OTHER -> outcome
          /\ stage' = CASE r.res = "error" -> AfterScan(FALSE)
                        [] r.res = "panic" -> "panic"
                        [] OTHER -> "scan"
    /\ UNCHANGED <<mode, parser, expr, prev>>

\* the end of scan_tokens: push the Eof token, return Ok(tokens); run then
\* builds the parser
ScanEof ==
    /\ stage = "scan"
    /\ Scanner_is_at_end(scanner)
    /\ tokens' = Append(tokens, EofToken(scanner))
    /\ spans' = Append(spans, <<scanner.current, scanner.current>>)
    /\ parser' = ParserNew(tokens')
    /\ stage' = AfterScan(TRUE)
    /\ UNCHANGED <<mode, scanner, expr, outcome, prev>>

\* scan_tokens as one step (the whole loop)
ScanAll ==
    /\ stage = "scan"
    /\ LET r == scan_tokens(scanner.source)
       IN /\ scanner' = r.s
          /\ tokens' = r.tokens
          /\ parser' = IF r.res = "ok" THEN ParserNew(r.tokens) ELSE parser
          /\ outcome' = CASE r.res = "error" ->
                                 Failure("SyntaxError", r.line, r.message)
                          [] r.res = "panic" -> Failure("panic", 0, r.message)
                          [] OTHER -> outcome
          /\ stage' = CASE r.res = "ok" -> AfterScan(TRUE)
                        [] r.res = "error" -> AfterScan(FALSE)
                        [] r.res = "panic" -> "panic"
    /\ UNCHANGED <<mode, spans, expr, prev>>

\* run: let expr = parser.parse()?
Parse ==
    /\ stage = "parse"
    /\ LET r == parse(parser)
       IN /\ parser' = r.p
          /\ expr' = r.expr
          /\ outcome' = IF r.ok THEN outcome
                        ELSE Failure("SyntaxError", r.line, r.message)
          /\ stage' = AfterParse(r.ok)
    /\ UNCHANGED <<mode, scanner, tokens, spans, prev>>

\* run: interpret::interpret(expr); Ok(())
Interpret ==
    /\ stage = "eval"
    /\ LET r == evaluate(expr)
       IN /\ outcome' = CASE r.res = "ok" -> PrintedValue(r.value)
                          [] r.res = "error" -> Failure("TypeError", r.line, r.message)
                          [] r.res = "panic" -> Failure("panic", 0, r.message)
          /\ stage' = IF r.res = "panic" THEN "panic" ELSE "done"
    /\ UNCHANGED <<mode, scanner, tokens, spans, parser, expr, prev>>

\* run_file returns run's result to main, which returns
Finish ==
    /\ mode = "file"
    /\ stage = "done"
    /\ stage' = "exit"
    /\ UNCHANGED <<mode, scanner, tokens, spans, parser, expr, outcome, prev>>

\* what run_prompt does when run returned: report an Err, then loop
AfterRun(kind) == "read"

\* run_prompt: if let Err(err) = run(line) { eprintln!("{err}") }, and the
\* next iteration of the loop; the run's values are dropped
Continue ==
    /\ mode = "prompt"
    /\ stage = "done"
    /\ stage' = AfterRun(outcome.kind)
    /\ prev' = outcome.kind
    /\ scanner' = ScannerNew(<<>>)
    /\ tokens' = <<>>
    /\ spans' = <<>>
    /\ parser' = ParserNew(<<>>)
    /\ expr' = NoExpr
    /\ outcome' = NoOutcome
    /\ UNCHANGED mode

Next ==
    \/ ReadFile
    \/ ReadFileFail
    \/ ReadLine
    \/ ReadLineFail
    \/ ScanStep
    \/ ScanEof
    \/ Parse
    \/ Interpret
    \/ Finish
    \/ Continue

Spec == Init /\ [][Next]_vars

(***************************************************************************)
(* The same pipeline on source texts made of words, scanned in one step    *)
(***************************************************************************)

InitWords ==
    /\ mode = "file"
    /\ stage = "read"
    /\ prev = "none"
    /\ Fresh

\* run_file on a text of blank-separated words
ReadWords ==
    /\ mode = "file"
    /\ stage = "read"
    /\ \E src \in WordSources : StartRun(src)

NextWords ==
    \/ ReadWords
    \/ ScanAll
    \/ Parse
    \/ Interpret
    \/ Finish

SpecWords == InitWords /\ [][NextWords]_vars

(***************************************************************************)
(* run, as a function of the source text                                   *)
(***************************************************************************)

\* run: scan_tokens()?, parse()?, interpret; what the run reports
run(src) ==
    LET sc == scan_tokens(src)
        pr == parse(ParserNew(sc.tokens))
        ev == evaluate(pr.expr)
    IN CASE sc.res = "error" -> Failure("SyntaxError", sc.line, sc.message)
         [] sc.res = "panic" -> Failure("panic", 0, sc.message)
         [] OTHER ->
              IF ~pr.ok THEN Failure("SyntaxError", pr.line, pr.message)
              ELSE CASE ev.res = "ok" -> PrintedValue(ev.value)
                     [] ev.res = "error" -> Failure("TypeError", ev.line, ev.message)
                     [] ev.res = "panic" -> Failure("panic", 0, ev.message)

(***************************************************************************)
(* Vocabulary of the properties                                            *)
(***************************************************************************)

\* the 1-based line of character position pos (0-based) of src: the number
\* of newlines before it, plus one
LineAt(src, pos) ==
    1 + Cardinality({i \in 1..Len(src) : i <= pos /\ src[i] = "\n"})

\* scan_tokens returned Ok(tokens)
ScanSucceeded == tokens # <<>> /\ tokens[Len(tokens)].ty = "Eof"

\* parse returned Ok(expr)
ParseSucceeded == expr # NoExpr

\* parse has returned
ParseReturned == ScanSucceeded /\ stage \in {"eval", "done", "exit", "panic"}

\* the scanner faulted on a slice
ScanFaulted ==
    stage = "panic" /\ outcome.message = "byte index is not a char boundary"

\* evaluate reached one of its panic! branches
EvalFaulted ==
    /\ stage = "panic"
    /\ outcome.message \in {"Invalid binary operator", "Invalid literal value",
                            "Invalid unary operator"}

\* the precedence level the grammar gives a binary operator, 1 the loosest
GrammarLevel(ty) ==
    CASE ty \in {"BangEqual", "EqualEqual"} -> 1
      [] ty \in {"Greater", "GreaterEqual", "Less", "LessEqual"} -> 2
      [] ty \in {"Minus", "Plus"} -> 3
      [] ty \in {"Slash", "Star"} -> 4
      [] OTHER -> 0

\* the source text of the words ws
Text(ws) == JoinWords(ws)

(***************************************************************************)
(* C1 (Scanner::scan_tokens is total): for every source text, multi-byte   *)
(* characters included, scanning ends with tokens or a SyntaxError and     *)
(* never faults on the slice source[start..current].                       *)
(* The code refutes it: start and current count characters, the slice      *)
(* takes them as byte offsets.                                             *)
(***************************************************************************)
C1_ScanNeverFaults == ~ScanFaulted

(***************************************************************************)
(* C2: when scanning and parsing succeeded, evaluate never reaches a       *)
(* panic! branch: every Literal holds a number, string, true, false or nil *)
(* token, every Unary operator is '-' or '!', every Binary operator is one *)
(* of - / * + > >= < <= != ==.                                             *)
(***************************************************************************)
RECURSIVE ClosedNodes(_)
ClosedNodes(e) ==
    CASE e.node = "Literal" ->
           e.token.ty \in {"Number", "String", "True", "False", "Nil"}
      [] e.node = "Grouping" -> ClosedNodes(e.e)
      [] e.node = "Unary" ->
           e.operator.ty \in {"Minus", "Bang"} /\ ClosedNodes(e.right)
      [] e.node = "Binary" ->
           /\ e.operator.ty \in {"Minus", "Slash", "Star", "Plus", "Greater",
                                 "GreaterEqual", "Less", "LessEqual",
                                 "BangEqual", "EqualEqual"}
           /\ ClosedNodes(e.left)
           /\ ClosedNodes(e.right)
      [] OTHER -> FALSE

\* C2: a tree that scan_tokens and parse return never takes evaluate to one
\* of its defensive fault branches; its nodes come from the closed set.
C2_NoEvalFault ==
    /\ ~EvalFaulted
    /\ ParseSucceeded => ClosedNodes(expr) /\ evaluate(expr).res # "panic"

C2_Witness ==
    /\ stage = "done"
    /\ outcome.kind = "value"
    /\ expr.node = "Binary"
    /\ expr.left.node = "Unary"

(***************************************************************************)
(* C3: whenever parse returns an expression, the parser cursor rests on    *)
(* the end-of-input token: no token is left over after the expression.     *)
(* The code refutes it: parse returns after one expression and never looks *)
(* at what follows.                                                        *)
(***************************************************************************)
C3_ParseConsumesAll ==
    (ParseReturned /\ ParseSucceeded) => parser.current = Len(parser.tokens) - 1

(***************************************************************************)
(* C4: the "Unterminated string." error carries the line of the string's   *)
(* opening quote, also when the unterminated string contains newlines.     *)
(* The code refutes it: it reports the line counter after the newlines     *)
(* inside the string were counted.                                         *)
(***************************************************************************)
C4_UnterminatedAtOpeningLine ==
    (outcome.kind = "SyntaxError" /\ outcome.message = "Unterminated string.")
        => outcome.line = LineAt(scanner.source, scanner.start)

(***************************************************************************)
(* C5, as stated: every token scan_tokens returns carries the line on      *)
(* which it started, multi-line string literals included.                  *)
(***************************************************************************)
C5_TokenLineIsStartLine ==
    ScanSucceeded =>
        \A i \in 1..Len(tokens) :
            tokens[i].line = LineAt(scanner.source, spans[i][1])

(***************************************************************************)
(* C5, amended: every token scan_tokens returns carries the line on which  *)
(* it ends (the number of newlines before the position after its last      *)
(* character, plus one); that is the line on which it started for every    *)
(* token but a string literal with a newline in it.                        *)
(***************************************************************************)
C5_TokenLineIsEndLine ==
    ScanSucceeded =>
        \A i \in 1..Len(tokens) :
            /\ tokens[i].line = LineAt(scanner.source, spans[i][2])
            /\ tokens[i].ty # "String"
                  => tokens[i].line = LineAt(scanner.source, spans[i][1])
            /\ (\A j \in (spans[i][1] + 1)..spans[i][2] :
                    CharsNth(scanner.source, j - 1) # "\n")
                  => tokens[i].line = LineAt(scanner.source, spans[i][1])

C5_Witness ==
    /\ ScanSucceeded
    /\ \E i \in 1..Len(tokens) :
          /\ tokens[i].ty = "String"
          /\ LineAt(scanner.source, spans[i][1]) < tokens[i].line
    /\ \E i \in 1..Len(tokens) : tokens[i].ty = "Number" /\ tokens[i].line > 1

(***************************************************************************)
(* C6: every binary level is left-associative.  A chain of literals joined *)
(* by operators of one level parses to the left-nested tree, no Binary     *)
(* node has an unparenthesised right operand of its own level, and         *)
(* "1 - 2 - 3" evaluates to -4.                                            *)
(***************************************************************************)

\* literal (op literal)+ Eof, the operators all of one level
IsChain(toks) ==
    /\ Len(toks) >= 4
    /\ Len(toks) % 2 = 0
    /\ toks[Len(toks)].ty = "Eof"
    /\ \A i \in 1..(Len(toks) - 1) :
          IF i % 2 = 1
          THEN toks[i].ty \in {"Number", "String", "True", "False", "Nil"}
          ELSE /\ GrammarLevel(toks[i].ty) > 0
               /\ GrammarLevel(toks[i].ty) = GrammarLevel(toks[2].ty)

RECURSIVE LeftNested(_, _)
\* ((t1 t2 t3) t4 t5) ... up to the n-th token, n odd
LeftNested(toks, n) ==
    IF n = 1 THEN Literal(toks[1])
    ELSE Binary(LeftNested(toks, n - 2), toks[n - 1], Literal(toks[n]))

RECURSIVE RightOperandsTighter(_)
RightOperandsTighter(e) ==
    CASE e.node = "Binary" ->
           /\ e.right.node = "Binary"
                 => GrammarLevel(e.right.operator.ty) > GrammarLevel(e.operator.ty)
           /\ RightOperandsTighter(e.left)
           /\ RightOperandsTighter(e.right)
      [] e.node = "Unary" -> RightOperandsTighter(e.right)
      [] e.node = "Grouping" -> RightOperandsTighter(e.e)
      [] OTHER -> TRUE

\* C6: every chain of operators of one binary level parses left-nested, so
\* that "1 - 2 - 3" evaluates to -4.
C6_LeftAssociative ==
    /\ (ParseReturned /\ IsChain(tokens))
          => /\ ParseSucceeded
             /\ expr = LeftNested(tokens, Len(tokens) - 1)
    /\ ParseSucceeded => RightOperandsTighter(expr)
    /\ (stage = "done" /\ scanner.source = Text(<<<<"1">>, <<"-">>, <<"2">>, <<"-">>, <<"3">>>>))
          => outcome = PrintedValue(NumberValue(<<-4, 1>>))

C6_Witness ==
    /\ stage = "done"
    /\ IsChain(tokens)
    /\ Len(tokens) = 6
    /\ tokens[2].ty = "Minus"
    /\ tokens[4].ty = "Plus"
    /\ outcome = PrintedValue(NumberValue(<<2, 1>>))

(***************************************************************************)
(* C7: precedence follows the grammar (equality, comparison, term, factor, *)
(* unary, primary, loosest first).  In a parsed tree an unparenthesised    *)
(* Binary operand of a Binary node has an operator of the same or a        *)
(* tighter level, the operand of a Unary node is never an unparenthesised  *)
(* Binary node, the tree read in order (a Grouping as its expression       *)
(* between parentheses) is the token sequence consumed, so a parenthesised *)
(* expression is one operand; "1 + 2 * 3" evaluates to 7 and               *)
(* "(1 + 2) * 3" to 9.                                                     *)
(***************************************************************************)
RECURSIVE OperandsSameOrTighter(_)
OperandsSameOrTighter(e) ==
    CASE e.node = "Binary" ->
           /\ e.left.node = "Binary"
                 => GrammarLevel(e.left.operator.ty) >= GrammarLevel(e.operator.ty)
           /\ e.right.node = "Binary"
                 => GrammarLevel(e.right.operator.ty) >= GrammarLevel(e.operator.ty)
           /\ OperandsSameOrTighter(e.left)
           /\ OperandsSameOrTighter(e.right)
      [] e.node = "Unary" ->
           e.right.node # "Binary" /\ OperandsSameOrTighter(e.right)
      [] e.node = "Grouping" -> OperandsSameOrTighter(e.e)
      [] OTHER -> TRUE

RECURSIVE InOrder(_)
\* the lexemes of the tree, read in order
InOrder(e) ==
    CASE e.node = "Binary" ->
           InOrder(e.left) \o <<e.operator.lexeme>> \o InOrder(e.right)
      [] e.node = "Unary" -> <<e.operator.lexeme>> \o InOrder(e.right)
      [] e.node = "Grouping" -> <<<<"(">>>> \o InOrder(e.e) \o <<<<")">>>>
      [] e.node = "Literal" -> <<e.token.lexeme>>

\* C7: an unparenthesised Binary operand has an operator of the same or a
\* tighter level and a parenthesised sub-expression is one operand.
C7_Precedence ==
    /\ (ParseReturned /\ ParseSucceeded)
          => /\ OperandsSameOrTighter(expr)
             /\ InOrder(expr) = [i \in 1..parser.current |-> parser.tokens[i].lexeme]
    /\ (stage = "done" /\ scanner.source = Text(<<<<"1">>, <<"+">>, <<"2">>, <<"*">>, <<"3">>>>))
          => outcome = PrintedValue(NumberValue(<<7, 1>>))
    /\ (stage = "done"
        /\ scanner.source = Text(<<<<"(">>, <<"1">>, <<"+">>, <<"2">>, <<")">>, <<"*">>, <<"3">>>>))
          => outcome = PrintedValue(NumberValue(<<9, 1>>))

C7_Witness ==
    /\ stage = "done"
    /\ expr.node = "Binary"
    /\ expr.operator.ty = "Star"
    /\ expr.left.node = "Grouping"
    /\ expr.left.e.node = "Binary"
    /\ expr.left.e.operator.ty = "Plus"
    /\ outcome = PrintedValue(NumberValue(<<9, 1>>))

(***************************************************************************)
(* C8: binary '+' on two evaluated operands is the numeric sum when both   *)
(* are Number, the concatenation left-then-right when both are String, and *)
(* for every other pair of kinds the TypeError "Invalid operand types for  *)
(* '+'" at the operator's line; no operand is coerced.                     *)
(***************************************************************************)

\* what the claim says '+' yields on the operand values l and r
PlusAsClaimed(operator, l, r) ==
    IF l.kind = "Number" /\ r.kind = "Number"
    THEN PrintedValue(NumberValue(NumAdd(l.num, r.num)))
    ELSE IF l.kind = "String" /\ r.kind = "String"
    THEN PrintedValue(StringValue(l.text \o r.text))
    ELSE Failure("TypeError", operator.line, "Invalid operand types for '+'")

\* what evaluate reports for the expression e
Reported(e) ==
    LET ev == evaluate(e)
    IN CASE ev.res = "ok" -> PrintedValue(ev.value)
         [] ev.res = "error" -> Failure("TypeError", ev.line, ev.message)
         [] ev.res = "panic" -> Failure("panic", 0, ev.message)

\* both operands of the Binary node e evaluate to a value
OperandsEvaluated(e) ==
    evaluate(e.left).res = "ok" /\ evaluate(e.right).res = "ok"

RECURSIVE PlusNodesAsClaimed(_)
PlusNodesAsClaimed(e) ==
    CASE e.node = "Binary" ->
           /\ (e.operator.ty = "Plus" /\ OperandsEvaluated(e))
                 => Reported(e) = PlusAsClaimed(e.operator, evaluate(e.left).value,
                                                evaluate(e.right).value)
           /\ PlusNodesAsClaimed(e.left)
           /\ PlusNodesAsClaimed(e.right)
      [] e.node = "Unary" -> PlusNodesAsClaimed(e.right)
      [] e.node = "Grouping" -> PlusNodesAsClaimed(e.e)
      [] OTHER -> TRUE

\* C8: '+' adds two Numbers, concatenates two Strings and is a TypeError at
\* the operator's line for every other pair of kinds.
C8_Plus ==
    /\ ParseSucceeded => PlusNodesAsClaimed(expr)
    /\ (stage = "done" /\ ParseSucceeded /\ expr.node = "Binary"
        /\ expr.operator.ty = "Plus" /\ OperandsEvaluated(expr))
          => outcome = PlusAsClaimed(expr.operator, evaluate(expr.left).value,
                                     evaluate(expr.right).value)
    /\ (stage = "done" /\ scanner.source = Text(<<<<"1">>, <<"+">>, <<"2">>>>))
          => outcome = PrintedValue(NumberValue(<<3, 1>>))
    /\ (stage = "done"
        /\ scanner.source = Text(<<<<"\"", "a", "\"">>, <<"+">>, <<"\"", "b", "\"">>>>))
          => outcome = PrintedValue(StringValue(<<"a", "b">>))

\* a Number plus a Nil, the operator on line 2 and the operands on lines 1
\* and 3: the TypeError carries line 2
C8_Witness ==
    /\ stage = "done"
    /\ expr.node = "Binary"
    /\ expr.operator.ty = "Plus"
    /\ expr.left.node = "Literal"
    /\ expr.left.token.line = 1
    /\ expr.operator.line = 2
    /\ expr.right.node = "Literal"
    /\ expr.right.token.ty = "Nil"
    /\ expr.right.token.line = 3
    /\ outcome = Failure("TypeError", 2, "Invalid operand types for '+'")

(***************************************************************************)
(* C9, as stated: '==' and '!=' never fail; operands of different kinds    *)
(* are unequal, operands of one kind are equal exactly when their contents *)
(* are the same (for two Numbers: when they are the same number, the two   *)
(* zeros being one number), and '!=' is the negation of '=='.              *)
(***************************************************************************)

\* the same kind and the same content
SameContent(l, r) ==
    IF l.kind = "Number" /\ r.kind = "Number"
    THEN l.num = r.num \/ {l.num, r.num} = {PosZero, NegZero}
    ELSE l = r

\* what evaluate must report for the equality node e if values are equal
\* exactly when they are the same value
EqualityAsClaimed(e, same) ==
    IF e.operator.ty = "EqualEqual" THEN PrintedValue(BooleanValue(same))
    ELSE PrintedValue(BooleanValue(~same))

IsEqualityNode(e) ==
    e.node = "Binary" /\ e.operator.ty \in {"EqualEqual", "BangEqual"}

\* C9, as stated: '==' and '!=' never fail, different kinds are unequal, the
\* same kind compares by content and '!=' negates '=='.
C9_SameKindByContent ==
    (stage = "done" /\ ParseSucceeded /\ IsEqualityNode(expr) /\ OperandsEvaluated(expr))
        => outcome = EqualityAsClaimed(expr, SameContent(evaluate(expr.left).value,
                                                         evaluate(expr.right).value))

(***************************************************************************)
(* C9, amended: '==' and '!=' never fail; operands of different kinds are  *)
(* unequal; two Strings, two Booleans and two Nils are equal exactly when  *)
(* their contents are the same; two Numbers are equal exactly when they    *)
(* are the same number and that number is not NaN (a NaN is unequal to     *)
(* every Number, itself included); '!=' is the negation of '=='.           *)
(***************************************************************************)
SameAmended(l, r) ==
    /\ SameContent(l, r)
    /\ ~(l.kind = "Number" /\ l.num = NaN)

RECURSIVE EqualityNodesAmended(_)
EqualityNodesAmended(e) ==
    CASE e.node = "Binary" ->
           /\ (IsEqualityNode(e) /\ OperandsEvaluated(e))
                 => Reported(e) = EqualityAsClaimed(e, SameAmended(evaluate(e.left).value,
                                                                   evaluate(e.right).value))
           /\ EqualityNodesAmended(e.left)
           /\ EqualityNodesAmended(e.right)
      [] e.node = "Unary" -> EqualityNodesAmended(e.right)
      [] e.node = "Grouping" -> EqualityNodesAmended(e.e)
      [] OTHER -> TRUE

\* C9, amended: as stated, but two Numbers are equal exactly when they are
\* the same number and that number is not NaN.
C9_EqualityAmended ==
    /\ ParseSucceeded => EqualityNodesAmended(expr)
    /\ (stage = "done" /\ ParseSucceeded /\ IsEqualityNode(expr) /\ OperandsEvaluated(expr))
          => outcome = EqualityAsClaimed(expr, SameAmended(evaluate(expr.left).value,
                                                           evaluate(expr.right).value))

\* nil != false: operands of two kinds, both falsy, '!=' yields true
C9_Witness ==
    /\ stage = "done"
    /\ expr.node = "Binary"
    /\ expr.operator.ty = "BangEqual"
    /\ expr.left.node = "Literal"
    /\ expr.left.token.ty = "Nil"
    /\ expr.right.node = "Literal"
    /\ expr.right.token.ty = "False"
    /\ outcome = PrintedValue(BooleanValue(TRUE))

(***************************************************************************)
(* C10: stage failures short-circuit the pipeline and stay local to one    *)
(* input.  In run the parser is started only after scanning succeeded and  *)
(* the evaluator only after parsing succeeded; a failed stage ends the run *)
(* with the later stages untouched; in run_prompt every finished run,      *)
(* failed or not, is followed by the next read with nothing of the run     *)
(* kept; and what a run reports is a function of its own source text,      *)
(* whatever the line before it did.                                        *)
(***************************************************************************)
C10_ShortCircuit ==
    [][ /\ (stage' = "parse" /\ stage # "parse")
              => /\ stage = "scan"
                 /\ Scanner_is_at_end(scanner)
                 /\ outcome'.kind = "none"
                 /\ tokens'[Len(tokens')].ty = "Eof"
        /\ (stage' = "eval" /\ stage # "eval")
              => /\ stage = "parse"
                 /\ expr' # NoExpr
                 /\ outcome'.kind = "none"
        /\ (stage = "scan" /\ outcome'.kind = "SyntaxError")
              => /\ stage' = "done"
                 /\ parser' = ParserNew(<<>>)
                 /\ expr' = NoExpr
        /\ (stage = "parse" /\ outcome'.kind = "SyntaxError")
              => /\ stage' = "done"
                 /\ expr' = NoExpr
        /\ (mode = "prompt" /\ stage = "done")
              => /\ stage' = "read"
                 /\ scanner' = ScannerNew(<<>>)
                 /\ tokens' = <<>>
                 /\ parser' = ParserNew(<<>>)
                 /\ expr' = NoExpr
                 /\ outcome' = NoOutcome
        /\ stage' = "done" => outcome' = run(scanner'.source)
      ]_vars

\* a line that evaluates to a value, read after a line that failed
C10_Witness ==
    /\ mode = "prompt"
    /\ prev \in {"SyntaxError", "TypeError"}
    /\ stage = "done"
    /\ outcome.kind = "value"

(***************************************************************************)
(* C11: the token sequence a successful scan_tokens returns (the one run    *)
(* hands to Parser::new) ends with an end-of-input token of empty lexeme    *)
(* that carries the final value of the line counter, no earlier token is an *)
(* end-of-input token, and for the empty source the sequence is that one    *)
(* token at line 1.                                                         *)
(***************************************************************************)
C11_EofOnceAndLast ==
    stage = "parse" =>
        /\ tokens # <<>>
        /\ parser.tokens = tokens
        /\ tokens[Len(tokens)].ty = "Eof"
        /\ tokens[Len(tokens)].lexeme = <<>>
        /\ tokens[Len(tokens)].line = scanner.line
        /\ \A i \in 1..(Len(tokens) - 1) : tokens[i].ty # "Eof"
        /\ scanner.source = <<>> => (Len(tokens) = 1 /\ tokens[1].line = 1)

\* a successful scan of a text with a newline and a token before its end
C11_Witness ==
    /\ stage = "parse"
    /\ Len(tokens) >= 2
    /\ tokens[Len(tokens)].ty = "Eof"
    /\ tokens[Len(tokens)].line >= 2

\* the bytes of the source text the scanner has not passed yet: what the
\* guard of the scan_tokens loop compares
Remaining(s) == Len(SourceBytes(s.source)) - s.current

\* one iteration of the scan_tokens loop sets start to current and moves
\* current on by at least one, never past the end of the text
IterationAdvances ==
    (stage = "scan" /\ ~Scanner_is_at_end(scanner)) =>
        /\ scanner'.start = scanner.current
        /\ scanner'.current >= scanner.current + 1
        /\ scanner'.start <= scanner'.current
        /\ Remaining(scanner') < Remaining(scanner)
        /\ Remaining(scanner') >= 0

\* the loop is left only when current has reached the end of the text (with
\* the token sequence) or scan_token returned an error
LoopEndsAsClaimed ==
    (stage = "scan" /\ stage' # "scan") =>
        \/ /\ stage' = "parse"
           /\ Scanner_is_at_end(scanner)
           /\ tokens' # <<>>
        \/ /\ stage' = "done"
           /\ outcome'.kind = "SyntaxError"

(***************************************************************************)
(* C12: scanning always terminates.  Every iteration of the scan_tokens     *)
(* loop sets start to current and advances current by at least one (in the  *)
(* skip branches and when advance returns no character too), start <=       *)
(* current holds throughout, and the loop ends, after at most as many       *)
(* iterations as the text has bytes, with a token sequence or a             *)
(* SyntaxError.                                                             *)
(* The code refutes the last part: on multi-byte text an iteration can end  *)
(* in the slice fault of current_lexeme, which is neither.                  *)
(***************************************************************************)
C12_ScanTerminates ==
    [][ /\ scanner.start <= scanner.current
        /\ IterationAdvances
        /\ LoopEndsAsClaimed
      ]_vars

\* C12 without its last clause: every iteration advances, start <= current
\* throughout, and the number of iterations is bounded by the bytes left;
\* how the loop ends is left open.
C12_IterationsAdvance ==
    [][scanner.start <= scanner.current /\ IterationAdvances]_vars

\* an iteration in which advance returned no character (current is past the
\* last character but not past the last byte) and the loop went on
C12_Witness ==
    /\ stage = "scan"
    /\ scanner.start >= Len(scanner.source)
    /\ scanner.current = scanner.start + 1
    /\ scanner.current <= Len(SourceBytes(scanner.source))

====
